---- MODULE Spec2Model ----
(***************************************************************************)
(* Model of the ullekhanam REST API (vedavaapi/ullekhanam/api/v1/rest.py   *)
(* and its older copy api_v1.py): books, pages and annotations kept in a   *)
(* document store, linked by "target" relations.                           *)
(*                                                                         *)
(* The handlers are translated from the two source files.  The entity     *)
(* layer they call (sanskrit_data: update_collection, delete_in_collection,*)
(* get_targetting_entities, fill_descendents) is not part of the sources;  *)
(* it is modelled from its contract in the specification (sections 4.1,    *)
(* 4.2 and 6).                                                             *)
(*                                                                         *)
(* The store is a sequence of entity records in insertion order (the       *)
(* order in which a query returns them).  Ids are handed out by the store  *)
(* from a counter and are never reused.                                    *)
(*                                                                         *)
(* Specifications, all over the same variables:                            *)
(*   Spec      every route, one request at a time, flat posts              *)
(*   SpecTree  the tree routes over stores with cycles and entities of     *)
(*             two containers                                              *)
(*   SpecGraph the writing routes over such stores                         *)
(*   SpecRect  detection over a grid of regions                            *)
(*   SpecConc  concurrent annotation requests, one store call per step     *)
(*   SpecWalk  the tree assembler, one fill_descendents call per step      *)
(*   SpecOutage detection against a store that can become unavailable      *)
(*   SpecPost  POST /entities with longer lists                            *)
(***************************************************************************)
EXTENDS Integers, Sequences, FiniteSets, TLC

VARIABLES
    store,      \* the collection: Seq of entity records, insertion order
    nextId,     \* next id the store assigns on insert
    resp,       \* the response in flight (and the observed effects of the
                \* request it answers), or Idle once the client has it
    inflight    \* the annotation requests that run concurrently, each with
                \* its position in AllPageAnnotationsHandler.get

vars == <<store, nextId, resp, inflight>>

----------------------------------------------------------------------------
(* Bounds of the model *)

MaxId == 3          \* ids the store hands out: 1..MaxId
MaxRegions == 2     \* regions one detection run returns at most
MaxFiles == 2       \* files of one upload
MaxNodes == 2       \* trees in one POST /entities or DELETE /entities
MaxDepth == 2       \* largest depth parameter of a GET
MaxCoord == 2       \* pixel coordinates 0..MaxCoord in SpecRect
MaxRequests == 2    \* annotation requests that run concurrently

NoId == 0           \* "no _id attribute"
DefaultDepth == 10  \* fill_descendents' depth when the caller gives none
Ids == 1..MaxId

----------------------------------------------------------------------------
(* Entities *)

NoSource == [source_type |-> "none", id |-> "none"]
UserSource == [source_type |-> "user_supplied", id |-> "user"]
SystemSource == [source_type |-> "system_inferred", id |-> "pyCV2"]

\* books.BookPositionTarget.from_details(position, container_id)
BookPositionTarget(position, container_id) ==
    [container_id |-> container_id, position |-> position, rectangle |-> <<>>]

\* ullekhanam.ImageTarget.from_details(container_id, rectangle)
ImageTarget(container_id, rectangle) ==
    [container_id |-> container_id, position |-> -1, rectangle |-> <<rectangle>>]

\* a target with no payload, as a client posts it
PlainTarget(container_id) ==
    [container_id |-> container_id, position |-> -1, rectangle |-> <<>>]

\* books.BookPortion.from_details(title, base_data, portion_class, targets)
BookPortion(title, targets) ==
    [id |-> NoId, jsonClass |-> "BookPortion", title |-> title,
     targets |-> targets, source |-> NoSource]

\* ullekhanam.ImageAnnotation.from_details(targets, source)
ImageAnnotation(targets, source) ==
    [id |-> NoId, jsonClass |-> "ImageAnnotation", title |-> <<>>,
     targets |-> targets, source |-> source]

Range(s) == {s[i] : i \in DOMAIN s}

SeqsUpTo(S, n) == UNION {[1..k -> S] : k \in 0..n}

----------------------------------------------------------------------------
(* The entity layer (store adapter and tree assembler) *)

StoreIds(s) == {s[i].id : i \in DOMAIN s}

\* JsonObject.from_id: the entity with this id, if any
Has(s, id) == \E i \in DOMAIN s : s[i].id = id

from_id(s, id) == s[CHOOSE i \in DOMAIN s : s[i].id = id]

Targets(e, id) == \E k \in DOMAIN e.targets : e.targets[k].container_id = id

\* entity.get_targetting_entities(my_collection, entity_type): the entities
\* one of whose targets names id, of the given class if one is given, in
\* store order
get_targetting_entities(s, id, entity_type) ==
    SelectSeq(s, LAMBDA e : Targets(e, id)
                            /\ (entity_type = "any" \/ e.jsonClass = entity_type))

\* get_allowed_target_classes of the entity classes
AllowedTargetClasses(jsonClass) ==
    IF jsonClass = "BookPortion" THEN {"BookPortion"}
    ELSE {"BookPortion", "ImageAnnotation"}

\* target validation of upsert: every target names a persisted entity of an
\* allowed class
validate_targets(s, e) ==
    \A k \in DOMAIN e.targets :
        /\ Has(s, e.targets[k].container_id)
        /\ from_id(s, e.targets[k].container_id).jsonClass
               \in AllowedTargetClasses(e.jsonClass)

\* the store's write: insert under a fresh id, or replace in place
update_doc(s, nid, e) ==
    IF e.id = NoId THEN Append(s, [e EXCEPT !.id = nid])
    ELSE [i \in DOMAIN s |-> IF s[i].id = e.id THEN e ELSE s[i]]

\* entity.update_collection(my_collection, user): validate, then write.
\* Result: code 200 and the persisted entity, or the error kind
\* (417 schema, 418 target) with the store as it was.
update_collection(s, nid, e) ==
    IF e.jsonClass = "Malformed"
    THEN [code |-> 417, store |-> s, nextId |-> nid, id |-> NoId]
    ELSE IF ~validate_targets(s, e)
    THEN [code |-> 418, store |-> s, nextId |-> nid, id |-> NoId]
    ELSE [code |-> 200, store |-> update_doc(s, nid, e),
          nextId |-> IF e.id = NoId THEN nid + 1 ELSE nid,
          id |-> IF e.id = NoId THEN nid ELSE e.id]

Fuel(s) == Len(s) + 1

IdsOf(q) == [i \in DOMAIN q |-> q[i].id]

RECURSIVE fill_descendents(_, _, _, _)
\* JsonObjectNode.fill_descendents(my_collection, depth, entity_type):
\* the tree {content, children} of the targetters of id, depth levels deep
fill_descendents(s, id, depth, entity_type) ==
    LET targetting_objs == get_targetting_entities(s, id, entity_type)
    IN  [content |-> id,
         children |->
            IF depth > 0
            THEN [i \in DOMAIN targetting_objs |->
                    fill_descendents(s, targetting_objs[i].id, depth - 1, entity_type)]
            ELSE <<>>]

RECURSIVE delete_in_collection(_, _, _)
RECURSIVE delete_children(_, _, _)
\* the loop "for child in self.children: child.delete_in_collection(...)"
delete_children(r, kids, fuel) ==
    IF kids = <<>> \/ ~r.ok THEN r
    ELSE delete_children(delete_in_collection(r.store, Head(kids), fuel),
                         Tail(kids), fuel)

\* JsonObjectNode.delete_in_collection(my_collection): delete the entities
\* that target this one (and theirs, recursively), then the entity itself.
\* Deleting an id that is not in the store removes nothing.  The recursion
\* ends on every forest; fuel stands for the interpreter's recursion limit,
\* which only a cyclic target graph exhausts (ok = FALSE, an exception).
delete_in_collection(s, id, fuel) ==
    IF fuel = 0 THEN [ok |-> FALSE, store |-> s]
    ELSE LET kids == IdsOf(get_targetting_entities(s, id, "any"))
             r == delete_children([ok |-> TRUE, store |-> s], kids, fuel - 1)
         IN  IF r.ok
             THEN [ok |-> TRUE, store |-> SelectSeq(r.store, LAMBDA e : e.id # id)]
             ELSE r

----------------------------------------------------------------------------
(* GET /pages/<page_id>/annotations *)

\* ullekhanam.Rectangle.from_details(x, y, w, h)
Rectangle(x, y, w, h) == [x |-> x, y |-> y, w |-> w, h |-> h]

\* region_to_rectangle taking the far corner for the size
region_to_rectangle_corners(reg) ==
    Rectangle(reg[1], reg[2], reg[3], reg[4])

\* region_to_rectangle(reg): reg is [x0, y0, x1, y1] or [x0, y0, x1, y1, score]
region_to_rectangle(reg) ==
    Rectangle(reg[1], reg[2], reg[3] - reg[1], reg[4] - reg[2])

RECURSIVE persist_regions_reversed(_, _, _)
\* the loop with new_annotations.insert(0, annotation) for append
persist_regions_reversed(acc, page_id, regions) ==
    IF regions = <<>> \/ acc.code # 200 THEN acc
    ELSE LET target == ImageTarget(page_id, region_to_rectangle(Head(regions)))
             annotation == ImageAnnotation(<<target>>, SystemSource)
             u == IF acc.available = 0
                  THEN [code |-> 500, store |-> acc.store,
                        nextId |-> acc.nextId, id |-> NoId]
                  ELSE update_collection(acc.store, acc.nextId, annotation)
         IN  persist_regions_reversed(
                 [code |-> IF u.code = 200 THEN 200 ELSE 500,
                  store |-> u.store, nextId |-> u.nextId,
                  ret |-> IF u.code = 200 THEN <<u.id>> \o acc.ret ELSE acc.ret,
                  available |-> IF acc.available = 0 THEN 0
                                ELSE acc.available - 1],
                 page_id, Tail(regions))

RECURSIVE persist_regions(_, _, _)
\* the loop over detected_regions: one ImageAnnotation per region, persisted
\* in detection order.  acc = [code, store, nextId, ret, available], where
\* available is the number of writes the store still takes: at 0 the store
\* is unavailable, update_collection raises and the exception leaves the
\* handler (500) with nothing undone.
persist_regions(acc, page_id, regions) ==
    IF regions = <<>> \/ acc.code # 200 THEN acc
    ELSE LET target == ImageTarget(page_id, region_to_rectangle(Head(regions)))
             annotation == ImageAnnotation(<<target>>, SystemSource)
             u == IF acc.available = 0
                  THEN [code |-> 500, store |-> acc.store,
                        nextId |-> acc.nextId, id |-> NoId]
                  ELSE update_collection(acc.store, acc.nextId, annotation)
         IN  persist_regions(
                 [code |-> IF u.code = 200 THEN 200 ELSE 500,
                  store |-> u.store, nextId |-> u.nextId,
                  ret |-> IF u.code = 200 THEN Append(acc.ret, u.id) ELSE acc.ret,
                  available |-> IF acc.available = 0 THEN 0
                                ELSE acc.available - 1],
                 page_id, Tail(regions))

\* update_image_annotations that never looks at the force flag
update_image_annotations_noforce(s, nid, page_id, detected_regions, force_if_not_system_inferred, available) ==
    LET known_annotations == get_targetting_entities(s, page_id, "ImageAnnotation")
        detected == persist_regions([code |-> 200, store |-> s, nextId |-> nid,
                                     ret |-> <<>>,
                                     available |-> available],
                                    page_id, detected_regions)
    IN  IF Len(known_annotations) > 0
        THEN [code |-> 200, store |-> s, nextId |-> nid,
              ret |-> IdsOf(known_annotations), detect_calls |-> 0]
        ELSE [code |-> detected.code, store |-> detected.store,
              nextId |-> detected.nextId, ret |-> detected.ret,
              detect_calls |-> 1]

\* update_image_annotations where the force flag alone re-runs detection
update_image_annotations_forced(s, nid, page_id, detected_regions, force_if_not_system_inferred, available) ==
    LET known_annotations == get_targetting_entities(s, page_id, "ImageAnnotation")
        detected == persist_regions([code |-> 200, store |-> s, nextId |-> nid,
                                     ret |-> <<>>,
                                     available |-> available],
                                    page_id, detected_regions)
    IN  IF Len(known_annotations) > 0 /\ ~force_if_not_system_inferred
        THEN [code |-> 200, store |-> s, nextId |-> nid,
              ret |-> IdsOf(known_annotations), detect_calls |-> 0]
        ELSE [code |-> detected.code, store |-> detected.store,
              nextId |-> detected.nextId, ret |-> detected.ret,
              detect_calls |-> 1]

\* update_image_annotations that undoes its writes when one of them fails
update_image_annotations_rollback(s, nid, page_id, detected_regions, force_if_not_system_inferred, available) ==
    LET known_annotations == get_targetting_entities(s, page_id, "ImageAnnotation")
        known_si_annotations ==
            SelectSeq(known_annotations,
                      LAMBDA x : x.source.source_type = "system_inferred")
        existing == [code |-> 200, store |-> s, nextId |-> nid,
                     ret |-> IdsOf(known_annotations), detect_calls |-> 0]
        detected == persist_regions([code |-> 200, store |-> s, nextId |-> nid,
                                     ret |-> <<>>,
                                     available |-> available],
                                    page_id, detected_regions)
        fresh == [code |-> detected.code,
                  store |-> IF detected.code = 200 THEN detected.store ELSE s,
                  nextId |-> detected.nextId, ret |-> detected.ret,
                  detect_calls |-> 1]
    IN  IF Len(known_annotations) > 0
        THEN IF force_if_not_system_inferred
             THEN IF Len(known_si_annotations) > 0 THEN existing ELSE fresh
             ELSE existing
        ELSE fresh

\* update_image_annotations where a forced detection replaces the
\* annotations the page has
update_image_annotations_replacing(s, nid, page_id, detected_regions, force_if_not_system_inferred, available) ==
    LET known_annotations == get_targetting_entities(s, page_id, "ImageAnnotation")
        known_si_annotations ==
            SelectSeq(known_annotations,
                      LAMBDA x : x.source.source_type = "system_inferred")
        existing == [code |-> 200, store |-> s, nextId |-> nid,
                     ret |-> IdsOf(known_annotations), detect_calls |-> 0]
        cleared == SelectSeq(s, LAMBDA e : ~(e.jsonClass = "ImageAnnotation"
                                             /\ Targets(e, page_id)))
        detected == persist_regions([code |-> 200, store |-> cleared,
                                     nextId |-> nid, ret |-> <<>>,
                                     available |-> available],
                                    page_id, detected_regions)
        fresh == [code |-> detected.code, store |-> detected.store,
                  nextId |-> detected.nextId, ret |-> detected.ret,
                  detect_calls |-> 1]
    IN  IF Len(known_annotations) > 0
        THEN IF force_if_not_system_inferred
             THEN IF Len(known_si_annotations) > 0 THEN existing ELSE fresh
             ELSE existing
        ELSE fresh

\* AllPageAnnotationsHandler.update_image_annotations (rest.py).
\* detected_regions is what page_image.find_text_regions() returns if called.
update_image_annotations(s, nid, page_id, detected_regions, force_if_not_system_inferred, available) ==
    LET known_annotations == get_targetting_entities(s, page_id, "ImageAnnotation")
        known_si_annotations ==
            SelectSeq(known_annotations,
                      LAMBDA x : x.source.source_type = "system_inferred")
        existing == [code |-> 200, store |-> s, nextId |-> nid,
                     ret |-> IdsOf(known_annotations), detect_calls |-> 0]
        detected == persist_regions([code |-> 200, store |-> s, nextId |-> nid,
                                     ret |-> <<>>,
                                     available |-> available],
                                    page_id, detected_regions)
        fresh == [code |-> detected.code, store |-> detected.store,
                  nextId |-> detected.nextId, ret |-> detected.ret,
                  detect_calls |-> 1]
    IN  IF Len(known_annotations) > 0
        THEN IF force_if_not_system_inferred
             THEN IF Len(known_si_annotations) > 0 THEN existing ELSE fresh
             ELSE existing
        ELSE fresh

\* AllPageAnnotationsHandler.update_image_annotations (api_v1.py): no force flag
update_image_annotations_v1(s, nid, page_id, detected_regions, available) ==
    LET known_annotations == get_targetting_entities(s, page_id, "ImageAnnotation")
        detected == persist_regions([code |-> 200, store |-> s, nextId |-> nid,
                                     ret |-> <<>>,
                                     available |-> available],
                                    page_id, detected_regions)
    IN  IF Len(known_annotations) > 0
        THEN [code |-> 200, store |-> s, nextId |-> nid,
              ret |-> IdsOf(known_annotations), detect_calls |-> 0]
        ELSE [code |-> detected.code, store |-> detected.store,
              nextId |-> detected.nextId, ret |-> detected.ret,
              detect_calls |-> 1]

\* regions the detector returns in Spec: the two of the specification's
\* scenario, the first with its score (in hundredths)
SampleRegions == {<<10, 10, 50, 60, 90>>, <<100, 100, 150, 140>>}

DetectorOutputs == SeqsUpTo(SampleRegions, MaxRegions)

\* writes the store takes during one request: all of them ...
NoOutage == MaxRegions

\* ... or it becomes unavailable after some, as early as before the first
Outages == 0..MaxRegions

\* ids a request may name: those of the store and one the store never held
RequestIds == Ids \cup {MaxId + 1}

Idle == [op |-> "idle", code |-> 0, detect_calls |-> 0, unchanged |-> TRUE]

\* the response of AllPageAnnotationsHandler.get; regions is the detector's
\* output if it ran, available the writes the store took if it was written.  known and known_si count the ImageAnnotations (all,
\* system inferred) that targetted the page when the request arrived.
AnnotationsResponse(api, page_id, force, regions, available, r, s) ==
    LET known == get_targetting_entities(s, page_id, "ImageAnnotation")
    IN  [op |-> "annotations_get", api |-> api, code |-> r.code, id |-> page_id,
         force |-> force,
         regions |-> IF r.detect_calls > 0 THEN regions ELSE <<>>,
         available |-> IF r.detect_calls > 0 THEN available ELSE NoOutage,
         ret |-> IF r.code = 200 THEN r.ret ELSE <<>>,
         detect_calls |-> r.detect_calls,
         known |-> IdsOf(known),
         known_si |-> IdsOf(SelectSeq(known,
                        LAMBDA x : x.source.source_type = "system_inferred")),
         added |-> StoreIds(r.store) \ StoreIds(s),
         unchanged |-> (r.store = s)]

NotFound(op, id) == [op |-> op, code |-> 404, id |-> id, detect_calls |-> 0,
                     unchanged |-> TRUE]

\* AllPageAnnotationsHandler.get (rest.py).  The request is modelled for ids
\* the store does not hold and for book portions, the entities that have a
\* page image.
AnnotationsGet(page_id, force, regions, available) ==
    /\ resp = Idle
    /\ UNCHANGED inflight
    /\ IF ~Has(store, page_id)
       THEN /\ resp' = NotFound("annotations_get", page_id)
            /\ UNCHANGED <<store, nextId>>
       ELSE LET r == update_image_annotations(store, nextId, page_id, regions, force, available)
            IN  /\ from_id(store, page_id).jsonClass = "BookPortion"
                /\ r.nextId <= MaxId + 1
                /\ store' = r.store
                /\ nextId' = r.nextId
                /\ resp' = AnnotationsResponse("rest", page_id, force, regions, available, r, store)

\* AllPageAnnotationsHandler.get (api_v1.py)
AnnotationsGetV1(page_id, regions, available) ==
    /\ resp = Idle
    /\ UNCHANGED inflight
    /\ IF ~Has(store, page_id)
       THEN /\ resp' = NotFound("annotations_get", page_id)
            /\ UNCHANGED <<store, nextId>>
       ELSE LET r == update_image_annotations_v1(store, nextId, page_id, regions, available)
            IN  /\ from_id(store, page_id).jsonClass = "BookPortion"
                /\ r.nextId <= MaxId + 1
                /\ store' = r.store
                /\ nextId' = r.nextId
                /\ resp' = AnnotationsResponse("api_v1", page_id, FALSE, regions, available, r, store)

----------------------------------------------------------------------------
(* POST /books *)

\* file names are sequences of characters
Dot == "."
Slash == "/"

AllowedExtensions == {<<".", "j", "p", "g">>, <<".", "p", "n", "g">>, <<".", "g", "i", "f">>}

\* index of the last occurrence of ch in name, 0 if none
LastIndexOf(name, ch) ==
    LET hits == {i \in DOMAIN name : name[i] = ch}
    IN  IF hits = {} THEN 0 ELSE CHOOSE i \in hits : \A j \in hits : j <= i

\* os.path.basename
basename(name) == SubSeq(name, LastIndexOf(name, Slash) + 1, Len(name))

\* werkzeug's secure_filename on names of letters and dots: the dots at
\* both ends are stripped
secure_filename(name) ==
    LET keep == {i \in DOMAIN name : name[i] # Dot}
        lo == CHOOSE i \in keep : \A j \in keep : i <= j
        hi == CHOOSE i \in keep : \A j \in keep : j <= i
    IN  IF keep = {} THEN <<>> ELSE SubSeq(name, lo, hi)

\* os.path.splitext(filename)[1]: from the last dot on, unless only dots
\* precede it
splitext_ext(filename) ==
    LET i == LastIndexOf(filename, Dot)
    IN  IF i = 0 \/ (\A j \in 1..(i - 1) : filename[j] = Dot) THEN <<>>
        ELSE SubSeq(filename, i, Len(filename))

is_extension_allowed(filename, allowed_extensions_with_dot) ==
    splitext_ext(filename) \in allowed_extensions_with_dot

FileNames ==
    { <<"a", ".", "j", "p", "g">>,
      <<"b", ".", "p", "n", "g">>,
      <<"d", "/", "c", ".", "g", "i", "f">>,
      <<"a", ".", "J", "P", "G">>,
      <<"n", ".", "t", "x", "t">>,
      <<".", "j", "p", "g">> }

Uploads == SeqsUpTo(FileNames, MaxFiles)

\* the loop "Check the files": TRUE iff every file passes
files_allowed(in_files) ==
    \A i \in DOMAIN in_files :
        is_extension_allowed(secure_filename(basename(in_files[i])), AllowedExtensions)

\* what book_json may unpickle to
BookJsons ==
    [jsonClass : {"BookPortion", "ImageAnnotation"},
     base_data : {"image", "text", "absent"},
     id : {NoId, 1}]

GoodBook == [jsonClass |-> "BookPortion", base_data |-> "image", id |-> NoId]

\* steps of the page loop that can raise
PageSteps == {"upsert", "save", "convert"}

\* the upload requests: what the handler does not get to read (the book of
\* an unauthorized caller, the files of a rejected book) is left empty, and
\* a failure is injected only into a page loop that runs
BookRequests ==
    {q \in [authorized : BOOLEAN, book : BookJsons, in_files : Uploads,
            fail_at : 0..MaxFiles, fail_step : PageSteps] :
        /\ q.fail_at <= Len(q.in_files)
        /\ (q.fail_at = 0 => q.fail_step = "upsert")
        /\ (~q.authorized \/ q.book # GoodBook
               => q.in_files = <<>> /\ q.fail_at = 0)}

\* the page numbered from one (page_index = 0 before the loop)
Page_one_based(page_index, book_id) ==
    BookPortion(<<"pg_", page_index + 1>>,
                <<BookPositionTarget(page_index + 1, book_id)>>)

\* page page_index of the book: title "pg_<page_index>"
Page(page_index, book_id) ==
    BookPortion(<<"pg_", page_index>>,
                <<BookPositionTarget(page_index, book_id)>>)

RECURSIVE page_loop(_, _, _, _, _)
\* the try block of BookList.post from page page_index on; fail_at = 0, or
\* the (1-based) file at which fail_step raises.
\* acc = [ok, store, nextId, pages]
page_loop(acc, book_id, n_files, fail_at, fail_step) ==
    LET page_index == Len(acc.pages)
        k == page_index + 1
        u == update_collection(acc.store, acc.nextId, Page(page_index, book_id))
    IN  IF ~acc.ok \/ page_index = n_files THEN acc
        ELSE IF (fail_at = k /\ fail_step = "upsert") \/ u.code # 200
        THEN [acc EXCEPT !.ok = FALSE]
        ELSE page_loop([ok |-> ~(fail_at = k), store |-> u.store,
                        nextId |-> u.nextId, pages |-> Append(acc.pages, u.id)],
                       book_id, n_files, fail_at, fail_step)

\* BookList.post without the rollback of its except block
BookList_post_norollback(s, nid, authorized, book, in_files, fail_at, fail_step) ==
    LET same(code) == [code |-> code, store |-> s, nextId |-> nid,
                       book |-> NoId, pages |-> <<>>, body |-> <<>>]
        b == update_collection(s, nid, BookPortion(<<"book">>, <<>>))
        l == page_loop([ok |-> TRUE, store |-> b.store, nextId |-> b.nextId,
                        pages |-> <<>>], b.id, Len(in_files), fail_at, fail_step)
        d == delete_in_collection(l.store, b.id, Fuel(l.store))
    IN  IF ~authorized THEN same(401)
        ELSE IF book.base_data = "absent" \/ book.base_data # "image"
                \/ book.jsonClass # "BookPortion"
        THEN same(417)
        ELSE IF book.id # NoId THEN same(405)
        ELSE IF ~files_allowed(in_files) THEN same(418)
        ELSE IF b.code # 200 THEN same(500)
        ELSE IF ~l.ok
        THEN [code |-> IF d.ok THEN 419 ELSE 500, store |-> l.store,
              nextId |-> l.nextId, book |-> b.id, pages |-> l.pages, body |-> <<>>]
        ELSE [code |-> 200, store |-> l.store, nextId |-> l.nextId,
              book |-> b.id, pages |-> l.pages,
              body |-> <<fill_descendents(l.store, b.id, DefaultDepth, "any")>>]

\* BookList.post that persists the book before it checks the files
BookList_post_late_check(s, nid, authorized, book, in_files, fail_at, fail_step) ==
    LET same(code) == [code |-> code, store |-> s, nextId |-> nid,
                       book |-> NoId, pages |-> <<>>, body |-> <<>>]
        b == update_collection(s, nid, BookPortion(<<"book">>, <<>>))
        l == page_loop([ok |-> TRUE, store |-> b.store, nextId |-> b.nextId,
                        pages |-> <<>>], b.id, Len(in_files), fail_at, fail_step)
        d == delete_in_collection(l.store, b.id, Fuel(l.store))
    IN  IF ~authorized THEN same(401)
        ELSE IF book.base_data = "absent" \/ book.base_data # "image"
                \/ book.jsonClass # "BookPortion"
        THEN same(417)
        ELSE IF book.id # NoId THEN same(405)
        ELSE IF ~files_allowed(in_files) THEN [same(418) EXCEPT !.store = b.store]
        ELSE IF b.code # 200 THEN same(500)
        ELSE IF ~l.ok
        THEN [code |-> IF d.ok THEN 419 ELSE 500, store |-> d.store,
              nextId |-> l.nextId, book |-> b.id, pages |-> l.pages, body |-> <<>>]
        ELSE [code |-> 200, store |-> l.store, nextId |-> l.nextId,
              book |-> b.id, pages |-> l.pages,
              body |-> <<fill_descendents(l.store, b.id, DefaultDepth, "any")>>]

\* BookList.post (rest.py; api_v1.py reads book.base_data without the hasattr
\* guard and is otherwise the same).
\* Result: [code, store, nextId, book, pages, body]
BookList_post(s, nid, authorized, book, in_files, fail_at, fail_step) ==
    LET same(code) == [code |-> code, store |-> s, nextId |-> nid,
                       book |-> NoId, pages |-> <<>>, body |-> <<>>]
        b == update_collection(s, nid, BookPortion(<<"book">>, <<>>))
        l == page_loop([ok |-> TRUE, store |-> b.store, nextId |-> b.nextId,
                        pages |-> <<>>], b.id, Len(in_files), fail_at, fail_step)
        d == delete_in_collection(l.store, b.id, Fuel(l.store))
    IN  IF ~authorized THEN same(401)
        ELSE IF book.base_data = "absent" \/ book.base_data # "image"
                \/ book.jsonClass # "BookPortion"
        THEN same(417)
        ELSE IF book.id # NoId THEN same(405)
        ELSE IF ~files_allowed(in_files) THEN same(418)
        ELSE IF b.code # 200 THEN same(500)
        ELSE IF ~l.ok
        THEN [code |-> IF d.ok THEN 419 ELSE 500, store |-> d.store,
              nextId |-> l.nextId, book |-> b.id, pages |-> l.pages, body |-> <<>>]
        ELSE [code |-> 200, store |-> l.store, nextId |-> l.nextId,
              book |-> b.id, pages |-> l.pages,
              body |-> <<fill_descendents(l.store, b.id, DefaultDepth, "any")>>]

BooksPost(authorized, book, in_files, fail_at, fail_step) ==
    LET r == BookList_post(store, nextId, authorized, book, in_files, fail_at, fail_step)
    IN  /\ resp = Idle
        /\ UNCHANGED inflight
        /\ r.nextId <= MaxId + 1
        /\ store' = r.store
        /\ nextId' = r.nextId
        /\ resp' = [op |-> "books_post", code |-> r.code,
                    authorized |-> authorized,
                    allowed |-> [i \in DOMAIN in_files |->
                        is_extension_allowed(secure_filename(basename(in_files[i])),
                                             AllowedExtensions)],
                    book |-> r.book, pages |-> r.pages, body |-> r.body,
                    added |-> StoreIds(r.store) \ StoreIds(store),
                    detect_calls |-> 0, unchanged |-> (r.store = store)]

----------------------------------------------------------------------------
(* POST /entities and DELETE /entities *)

\* an object that does not fit its schema
Malformed ==
    [id |-> NoId, jsonClass |-> "Malformed", title |-> <<>>,
     targets |-> <<>>, source |-> NoSource]

\* containers a posted target names: the persisted entities and one id the
\* store never held
Containers(s) == StoreIds(s) \cup {MaxId + 1}

\* targets a client posts: none or one ...
OneTarget(s) == {<<>>} \cup {<<PlainTarget(c)>> : c \in Containers(s)}

\* ... or two
TwoTargets(s) ==
    {<<PlainTarget(c), PlainTarget(d)>> : c \in Containers(s), d \in Containers(s)}

\* new entities (no id) with the given targets and sources
NewEntities(tgs, srcs) ==
    {BookPortion(<<>>, tg) : tg \in tgs}
    \cup {ImageAnnotation(tg, src) : tg \in tgs, src \in srcs}

\* a persisted entity posted again with another target: an update in place
Replacements(s) ==
    {[s[i] EXCEPT !.targets = tg] : i \in DOMAIN s, tg \in OneTarget(s)}

\* the lists of POST /entities in Spec: up to MaxNodes new entities of at
\* most one target each, or malformed
PostRequests(s) ==
    SeqsUpTo({Malformed}
             \cup NewEntities(OneTarget(s), {UserSource, SystemSource}), MaxNodes)

\* the lists of POST /entities in SpecTree: one entity, new with up to two
\* targets (an entity of two containers) or an update (which can close a
\* cycle of targets)
TreePostRequests(s) ==
    {<<e>> : e \in NewEntities(OneTarget(s) \cup TwoTargets(s), {UserSource})
                    \cup Replacements(s)}

\* does some target of e name a container that is not in s
Dangling(s, e) ==
    \E k \in DOMAIN e.targets : ~Has(s, e.targets[k].container_id)

RECURSIVE post_loop_writes_first(_, _)
\* the loop with the write ahead of the target validation
post_loop_writes_first(acc, nodes) ==
    IF nodes = <<>> \/ acc.code # 200 THEN acc
    ELSE LET e == Head(nodes)
             u == update_collection(acc.store, acc.nextId, e)
         IN  post_loop_writes_first(
                 [code |-> u.code,
                  store |-> IF u.code = 418 THEN update_doc(acc.store, acc.nextId, e)
                            ELSE u.store,
                  nextId |-> u.nextId,
                  done |-> acc.done + 1,
                  written |-> IF u.code = 200 THEN Append(acc.written, u.id)
                              ELSE acc.written,
                  failed |-> IF u.code = 200 THEN acc.failed ELSE <<e>>,
                  dangling |-> acc.dangling \/ Dangling(acc.store, e)],
                 Tail(nodes))

RECURSIVE post_loop(_, _)
\* the loop "for node in nodes" of EntityListHandler.post.
\* acc = [code, store, nextId, done, written, failed, dangling]
post_loop(acc, nodes) ==
    IF nodes = <<>> \/ acc.code # 200 THEN acc
    ELSE LET e == Head(nodes)
             u == update_collection(acc.store, acc.nextId, e)
         IN  post_loop(
                 [code |-> u.code, store |-> u.store, nextId |-> u.nextId,
                  done |-> acc.done + 1,
                  written |-> IF u.code = 200 THEN Append(acc.written, u.id)
                              ELSE acc.written,
                  failed |-> IF u.code = 200 THEN acc.failed ELSE <<e>>,
                  dangling |-> acc.dangling \/ Dangling(acc.store, e)],
                 Tail(nodes))

\* EntityListHandler.post without its permission check
EntityListHandler_post_open(s, nid, authorized, nodes) ==
    post_loop([code |-> 200, store |-> s, nextId |-> nid, done |-> 0,
               written |-> <<>>, failed |-> <<>>, dangling |-> FALSE], nodes)

\* EntityListHandler.post that writes all trees of the list or none
EntityListHandler_post_atomic(s, nid, authorized, nodes) ==
    LET r == post_loop([code |-> 200, store |-> s, nextId |-> nid, done |-> 0,
                        written |-> <<>>, failed |-> <<>>, dangling |-> FALSE],
                       nodes)
    IN  IF ~authorized
        THEN [code |-> 401, store |-> s, nextId |-> nid, done |-> 0,
              written |-> <<>>, failed |-> <<>>, dangling |-> FALSE]
        ELSE IF r.code = 200 THEN r
        ELSE [r EXCEPT !.store = s, !.written = <<>>]

\* EntityListHandler.post
EntityListHandler_post(s, nid, authorized, nodes) ==
    IF ~authorized
    THEN [code |-> 401, store |-> s, nextId |-> nid, done |-> 0,
          written |-> <<>>, failed |-> <<>>, dangling |-> FALSE]
    ELSE post_loop([code |-> 200, store |-> s, nextId |-> nid, done |-> 0,
                    written |-> <<>>, failed |-> <<>>, dangling |-> FALSE], nodes)

\* The response records the effects of the request: n trees posted, done
\* of them handed to update_collection, the ids written, and when one
\* failed, that tree, the trees ahead of it in the list and the number
\* behind it.
EntitiesPost(authorized, nodes) ==
    LET r == EntityListHandler_post(store, nextId, authorized, nodes)
    IN  /\ resp = Idle
        /\ UNCHANGED inflight
        /\ r.nextId <= MaxId + 1
        /\ store' = r.store
        /\ nextId' = r.nextId
        /\ resp' = [op |-> "entities_post", code |-> r.code, n |-> Len(nodes),
                    authorized |-> authorized,
                    done |-> r.done, written |-> r.written, failed |-> r.failed,
                    ahead |-> IF r.failed = <<>> THEN <<>>
                              ELSE SubSeq(nodes, 1, r.done - 1),
                    behind |-> Len(nodes) - r.done,
                    dangling |-> r.dangling,
                    detect_calls |-> 0, unchanged |-> (r.store = store)]

RECURSIVE delete_loop(_, _)
\* the loop "for node in nodes" of EntityListHandler.delete; an exception
\* of delete_in_collection ends the request (500).  acc = [ok, store]
delete_loop(acc, ids) ==
    IF ids = <<>> \/ ~acc.ok THEN acc
    ELSE delete_loop(delete_in_collection(acc.store, Head(ids), Fuel(acc.store)),
                     Tail(ids))

\* EntityListHandler.delete that answers 404 for an id it does not find
EntityListHandler_delete_strict(s, authorized, ids) ==
    LET r == delete_loop([ok |-> TRUE, store |-> s], ids)
    IN  IF ~authorized THEN [code |-> 401, store |-> s]
        ELSE IF \E i \in DOMAIN ids : ~Has(s, ids[i]) THEN [code |-> 404, store |-> s]
        ELSE [code |-> IF r.ok THEN 200 ELSE 500, store |-> r.store]

\* EntityListHandler.delete that removes the named entities only, not the
\* entities that target them
EntityListHandler_delete_shallow(s, authorized, ids) ==
    IF ~authorized THEN [code |-> 401, store |-> s]
    ELSE [code |-> 200, store |-> SelectSeq(s, LAMBDA e : e.id \notin Range(ids))]

\* EntityListHandler.delete; ids are the _id-s of the nodes of the request
EntityListHandler_delete(s, authorized, ids) ==
    LET r == delete_loop([ok |-> TRUE, store |-> s], ids)
    IN  IF ~authorized THEN [code |-> 401, store |-> s]
        ELSE [code |-> IF r.ok THEN 200 ELSE 500, store |-> r.store]

EntitiesDelete(authorized, ids) ==
    LET r == EntityListHandler_delete(store, authorized, ids)
    IN  /\ resp = Idle
        /\ UNCHANGED inflight
        /\ store' = r.store
        /\ UNCHANGED nextId
        /\ resp' = [op |-> "entities_delete", code |-> r.code, ids |-> ids,
                    authorized |-> authorized,
                    absent |-> {ids[i] : i \in DOMAIN ids} \ StoreIds(store),
                    removed |-> StoreIds(store) \ StoreIds(r.store),
                    detect_calls |-> 0, unchanged |-> (r.store = store)]

----------------------------------------------------------------------------
(* GET /entities/<id> *)

\* EntityHandler.get that descends one level too many
EntityHandler_get_deeper(s, id, depth) ==
    IF ~Has(s, id) THEN [code |-> 404, body |-> <<>>]
    ELSE [code |-> 200, body |-> <<fill_descendents(s, id, depth + 1, "any")>>]

\* EntityHandler.get that follows the entity's own targets (its containers)
\* instead of its targetters
EntityHandler_get_targets(s, id, depth) ==
    IF ~Has(s, id) THEN [code |-> 404, body |-> <<>>]
    ELSE LET e == from_id(s, id)
         IN  [code |-> 200,
              body |-> <<[content |-> id,
                          children |->
                            IF depth > 0
                            THEN [k \in DOMAIN e.targets |->
                                    [content |-> e.targets[k].container_id,
                                     children |-> <<>>]]
                            ELSE <<>>]>>]

\* EntityHandler.get that leaves the depth argument out of the call
EntityHandler_get_default_depth(s, id, depth) ==
    IF ~Has(s, id) THEN [code |-> 404, body |-> <<>>]
    ELSE [code |-> 200, body |-> <<fill_descendents(s, id, DefaultDepth, "any")>>]

\* EntityHandler.get that builds the node from the id without looking it up
\* (as EntityTargettersHandler.get does)
EntityHandler_get_no_lookup(s, id, depth) ==
    [code |-> 200, body |-> <<fill_descendents(s, id, depth, "any")>>]

\* EntityHandler.get: 404, or the tree of the entity, depth levels deep
EntityHandler_get(s, id, depth) ==
    IF ~Has(s, id) THEN [code |-> 404, body |-> <<>>]
    ELSE [code |-> 200, body |-> <<fill_descendents(s, id, depth, "any")>>]

\* the depth of the fill_descendents call EntityHandler.get makes, if any
EntityHandler_get_handed(s, id, depth) ==
    IF ~Has(s, id) THEN <<>> ELSE <<depth>>

EntityGet(id, depth) ==
    LET r == EntityHandler_get(store, id, depth)
    IN  /\ resp = Idle
        /\ UNCHANGED inflight
        /\ resp' = [op |-> "entity_get", code |-> r.code, id |-> id,
                    depth |-> depth, body |-> r.body,
                    handed |-> EntityHandler_get_handed(store, id, depth),
                    detect_calls |-> 0, unchanged |-> TRUE]
        /\ UNCHANGED <<store, nextId>>

----------------------------------------------------------------------------
(* GET /entities/<id>/targetters *)

\* values of the targetter_class parameter ("any": not given)
TargetterClasses == {"any", "BookPortion", "ImageAnnotation"}

\* EntityTargettersHandler.get: the entity is built from the id without a
\* lookup; each targetter is filled with depth - 1.
\* Result: [code, handed, body]; handed lists the depth of every
\* fill_descendents call the handler makes.
EntityTargettersHandler_get(s, id, depth, targetter_class) ==
    LET targetters == get_targetting_entities(s, id, targetter_class)
    IN  [code |-> 200,
         handed |-> [i \in DOMAIN targetters |-> depth - 1],
         body |-> [i \in DOMAIN targetters |->
                     fill_descendents(s, targetters[i].id, depth - 1,
                                      targetter_class)]]

TargettersGet(id, depth, targetter_class) ==
    LET r == EntityTargettersHandler_get(store, id, depth, targetter_class)
    IN  /\ resp = Idle
        /\ UNCHANGED inflight
        /\ resp' = [op |-> "targetters_get", code |-> r.code, id |-> id,
                    depth |-> depth, targetter_class |-> targetter_class,
                    handed |-> r.handed, body |-> r.body,
                    detect_calls |-> 0, unchanged |-> TRUE]
        /\ UNCHANGED <<store, nextId>>

----------------------------------------------------------------------------
(* GET /entities/<id>/files and GET /entities/<id>/files/<file_name> *)

\* the files of a page directory (rest.py, BookList.post); the directory of
\* an entity is the file system's, so what it holds is an input of a request
PageFiles == {"content.jpg", "thumb.jpg"}

DirListings == {<<>>, <<"content.jpg", "thumb.jpg">>}

\* EntityFileListHandler.get: 404, or the listing of the entity's directory
EntityFileListHandler_get(s, id, listing) ==
    IF ~Has(s, id) THEN [code |-> 404, body |-> <<>>]
    ELSE [code |-> 200, body |-> listing]

EntityFilesGet(id, listing) ==
    LET r == EntityFileListHandler_get(store, id, listing)
    IN  /\ resp = Idle
        /\ UNCHANGED inflight
        /\ resp' = [op |-> "entity_files_get", code |-> r.code, id |-> id,
                    body |-> r.body, detect_calls |-> 0, unchanged |-> TRUE]
        /\ UNCHANGED <<store, nextId>>

\* EntityFileHandler.get: 404 for an unknown id; send_from_directory
\* answers 404 as well when the directory does not hold the file
EntityFileHandler_get(s, id, file_name, listing) ==
    IF ~Has(s, id) THEN [code |-> 404, body |-> <<>>]
    ELSE IF file_name \in Range(listing) THEN [code |-> 200, body |-> <<file_name>>]
    ELSE [code |-> 404, body |-> <<>>]

EntityFileGet(id, file_name, listing) ==
    LET r == EntityFileHandler_get(store, id, file_name, listing)
    IN  /\ resp = Idle
        /\ UNCHANGED inflight
        /\ resp' = [op |-> "entity_file_get", code |-> r.code, id |-> id,
                    body |-> r.body, detect_calls |-> 0, unchanged |-> TRUE]
        /\ UNCHANGED <<store, nextId>>

----------------------------------------------------------------------------
(* The service *)

\* the client takes the response; the service is ready for the next request
Deliver ==
    /\ resp # Idle
    /\ resp.op # "fill_descendents"
    /\ resp' = Idle
    /\ UNCHANGED <<store, nextId, inflight>>

Requests == 1..MaxRequests

\* a request that has not arrived yet
NotStarted ==
    [pc |-> "start", code |-> 0, page_id |-> NoId, force |-> FALSE,
     known |-> <<>>, detected |-> FALSE, regions |-> <<>>, todo |-> <<>>,
     ret |-> <<>>]

Init ==
    /\ store = <<>>
    /\ nextId = 1
    /\ resp = Idle
    /\ inflight = [p \in Requests |-> NotStarted]

Next ==
    \/ \E page_id \in RequestIds, force \in BOOLEAN, regions \in DetectorOutputs :
           AnnotationsGet(page_id, force, regions, NoOutage)
    \/ \E page_id \in Ids, regions \in DetectorOutputs :
           AnnotationsGetV1(page_id, regions, NoOutage)
    \/ \E q \in BookRequests :
           BooksPost(q.authorized, q.book, q.in_files, q.fail_at, q.fail_step)
    \/ \E authorized \in BOOLEAN, nodes \in PostRequests(store) :
           EntitiesPost(authorized, nodes)
    \/ \E authorized \in BOOLEAN, ids \in SeqsUpTo(RequestIds, MaxNodes) :
           EntitiesDelete(authorized, ids)
    \/ \E id \in RequestIds, depth \in 0..MaxDepth :
           EntityGet(id, depth)
    \/ \E id \in RequestIds, listing \in DirListings :
           EntityFilesGet(id, listing)
    \/ \E id \in RequestIds, file_name \in PageFiles, listing \in DirListings :
           EntityFileGet(id, file_name, listing)
    \/ Deliver

Spec == Init /\ [][Next]_vars

\* The tree requests over stores whose target relation need not be a forest
NextTree ==
    \/ \E nodes \in TreePostRequests(store) : EntitiesPost(TRUE, nodes)
    \/ \E id \in RequestIds, depth \in 0..MaxDepth : EntityGet(id, depth)
    \/ \E id \in RequestIds, depth \in 0..MaxDepth, cls \in TargetterClasses :
           TargettersGet(id, depth, cls)
    \/ Deliver

SpecTree == Init /\ [][NextTree]_vars

\* the uploads that get as far as the first write
WritingBookRequests ==
    {q \in BookRequests :
        q.authorized /\ q.book = GoodBook /\ files_allowed(q.in_files)}

\* All writing requests over stores whose target relation need not be a
\* forest: uploads, detection, single-entity posts (new with up to two
\* targets, or updates in place) and single-id deletes
NextGraph ==
    \/ \E page_id \in Ids, regions \in DetectorOutputs :
           AnnotationsGet(page_id, FALSE, regions, NoOutage)
    \/ \E q \in WritingBookRequests :
           BooksPost(q.authorized, q.book, q.in_files, q.fail_at, q.fail_step)
    \/ \E nodes \in TreePostRequests(store) : EntitiesPost(TRUE, nodes)
    \/ \E id \in Ids : EntitiesDelete(TRUE, <<id>>)
    \/ Deliver

SpecGraph == Init /\ [][NextGraph]_vars

\* Detection over every region of a small pixel grid, with and without a
\* score, on a page that has no annotations yet
WideRegions ==
    {<<x0, y0, x1, y1>> : x0 \in 0..MaxCoord, y0 \in 0..MaxCoord,
                          x1 \in 0..MaxCoord, y1 \in 0..MaxCoord}
    \cup {<<x0, y0, x1, y1, 50>> : x0 \in 0..MaxCoord, y0 \in 0..MaxCoord,
                                  x1 \in 0..MaxCoord, y1 \in 0..MaxCoord}

InitRect ==
    /\ store = <<[BookPortion(<<>>, <<>>) EXCEPT !.id = 1]>>
    /\ nextId = 2
    /\ resp = Idle
    /\ inflight = [p \in Requests |-> NotStarted]

NextRect ==
    \/ \E force \in BOOLEAN, reg \in WideRegions : AnnotationsGet(1, force, <<reg>>, NoOutage)
    \/ Deliver

SpecRect == InitRect /\ [][NextRect]_vars

\* Detection against a store that can become unavailable between two writes
\* of one request, over pages with and without annotations of either source
OutagePostRequests(s) ==
    {<<e>> : e \in NewEntities(OneTarget(s), {UserSource, SystemSource})}

NextOutage ==
    \/ \E page_id \in RequestIds, force \in BOOLEAN,
          regions \in DetectorOutputs, available \in Outages :
           AnnotationsGet(page_id, force, regions, available)
    \/ \E page_id \in Ids, regions \in DetectorOutputs, available \in Outages :
           AnnotationsGetV1(page_id, regions, available)
    \/ \E nodes \in OutagePostRequests(store) : EntitiesPost(TRUE, nodes)
    \/ Deliver

SpecOutage == Init /\ [][NextOutage]_vars

\* POST /entities with lists of up to MaxNodes + 1 new trees, well formed,
\* malformed or with a target the store does not hold
LongPostRequests(s) ==
    SeqsUpTo({Malformed} \cup NewEntities(OneTarget(s), {UserSource}),
             MaxNodes + 1)

NextPost ==
    \/ \E authorized \in BOOLEAN, nodes \in LongPostRequests(store) :
           EntitiesPost(authorized, nodes)
    \/ Deliver

SpecPost == Init /\ [][NextPost]_vars

----------------------------------------------------------------------------
(* Concurrent GET /pages/<page_id>/annotations.  The handlers take no lock
   (neither file has one); each call of the store is one atomic step and the
   requests interleave between the calls. *)

\* the test of update_image_annotations that never returns the known ones
short_circuits_never(known_annotations, force_if_not_system_inferred) == FALSE

\* the test "return known_annotations" of update_image_annotations
short_circuits(known_annotations, force_if_not_system_inferred) ==
    LET known_si_annotations ==
            SelectSeq(known_annotations,
                      LAMBDA x : x.source.source_type = "system_inferred")
    IN  /\ Len(known_annotations) > 0
        /\ (force_if_not_system_inferred => Len(known_si_annotations) > 0)

\* request p arrives: JsonObject.from_id(page_id), 404 if there is none
ConcLookup(p, page_id, force) ==
    /\ inflight[p].pc = "start"
    /\ inflight' = [inflight EXCEPT ![p] =
          IF Has(store, page_id)
          THEN [@ EXCEPT !.pc = "query", !.page_id = page_id, !.force = force]
          ELSE [@ EXCEPT !.pc = "done", !.code = 404, !.page_id = page_id,
                         !.force = force]]
    /\ UNCHANGED <<store, nextId, resp>>

\* page.get_targetting_entities(...) and the test on its result
ConcQuery(p) ==
    LET known_annotations ==
            get_targetting_entities(store, inflight[p].page_id, "ImageAnnotation")
    IN  /\ inflight[p].pc = "query"
        /\ inflight' = [inflight EXCEPT ![p] =
              IF short_circuits(known_annotations, inflight[p].force)
              THEN [@ EXCEPT !.pc = "done", !.code = 200,
                             !.known = IdsOf(known_annotations),
                             !.ret = IdsOf(known_annotations)]
              ELSE [@ EXCEPT !.pc = "detect",
                             !.known = IdsOf(known_annotations)]]
        /\ UNCHANGED <<store, nextId, resp>>

\* page_image.find_text_regions()
ConcDetect(p, detected_regions) ==
    /\ inflight[p].pc = "detect"
    /\ inflight' = [inflight EXCEPT ![p] =
          [@ EXCEPT !.pc = "persist", !.detected = TRUE,
                    !.regions = detected_regions, !.todo = detected_regions]]
    /\ UNCHANGED <<store, nextId, resp>>

\* one turn of the loop over detected_regions: annotation.update_collection;
\* after the last region the handler returns new_annotations
ConcPersist(p) ==
    LET q == inflight[p]
        target == ImageTarget(q.page_id, region_to_rectangle(Head(q.todo)))
        annotation == ImageAnnotation(<<target>>, SystemSource)
        u == update_collection(store, nextId, annotation)
    IN  /\ q.pc = "persist"
        /\ IF q.todo = <<>>
           THEN /\ inflight' = [inflight EXCEPT ![p] =
                      [@ EXCEPT !.pc = "done", !.code = 200]]
                /\ UNCHANGED <<store, nextId>>
           ELSE /\ u.nextId <= MaxId + 1
                /\ store' = u.store
                /\ nextId' = u.nextId
                /\ inflight' = [inflight EXCEPT ![p] =
                      IF u.code = 200
                      THEN [@ EXCEPT !.todo = Tail(q.todo),
                                     !.ret = Append(q.ret, u.id)]
                      ELSE [@ EXCEPT !.pc = "done", !.code = 500]]
        /\ UNCHANGED resp

\* a page, with no annotation or with one a user supplied
InitConc ==
    /\ \E annotated \in BOOLEAN :
          /\ store = <<[BookPortion(<<>>, <<>>) EXCEPT !.id = 1]>>
                       \o (IF annotated
                           THEN <<[ImageAnnotation(<<PlainTarget(1)>>, UserSource)
                                     EXCEPT !.id = 2]>>
                           ELSE <<>>)
          /\ nextId = IF annotated THEN 3 ELSE 2
    /\ resp = Idle
    /\ inflight = [p \in Requests |-> NotStarted]

NextConc ==
    \/ \E p \in Requests, page_id \in {1, MaxId + 1}, force \in BOOLEAN :
           ConcLookup(p, page_id, force)
    \/ \E p \in Requests : ConcQuery(p)
    \/ \E p \in Requests, regions \in DetectorOutputs : ConcDetect(p, regions)
    \/ \E p \in Requests : ConcPersist(p)

SpecConc == InitConc /\ [][NextConc]_vars

----------------------------------------------------------------------------
(* The tree assembler call by call: resp holds the calls of fill_descendents
   that are still to be made, the current one first. *)

\* the longest list of pending calls a walk that ends can have
PendingCap == MaxId * MaxDepth + 1

\* the recursive calls of a fill_descendents that passes its depth on
\* unchanged
fill_descendents_calls_same_depth(s, id, depth, entity_type) ==
    LET targetting_objs == get_targetting_entities(s, id, entity_type)
    IN  IF depth > 0
        THEN [i \in DOMAIN targetting_objs |->
                [id |-> targetting_objs[i].id, depth |-> depth]]
        ELSE <<>>

\* the recursive calls one call fill_descendents(id, depth) makes: one per
\* targetter, with depth - 1, if depth > 0
fill_descendents_calls(s, id, depth, entity_type) ==
    LET targetting_objs == get_targetting_entities(s, id, entity_type)
    IN  IF depth > 0
        THEN [i \in DOMAIN targetting_objs |->
                [id |-> targetting_objs[i].id, depth |-> depth - 1]]
        ELSE <<>>

Walk(op, id, depth, pending) ==
    [op |-> op, code |-> 0, id |-> id, depth |-> depth, pending |-> pending,
     detect_calls |-> 0, unchanged |-> TRUE]

\* EntityHandler.get: node.fill_descendents(depth=args['depth'])
WalkEntity(id, depth) ==
    /\ resp = Idle
    /\ Has(store, id)
    /\ resp' = Walk("fill_descendents", id, depth,
                    <<[id |-> id, depth |-> depth]>>)
    /\ UNCHANGED <<store, nextId, inflight>>

\* EntityTargettersHandler.get: for node in targetter_nodes:
\* node.fill_descendents(depth=args["depth"] - 1)
WalkTargetters(id, depth) ==
    LET targetters == get_targetting_entities(store, id, "any")
    IN  /\ resp = Idle
        /\ resp' = Walk("fill_descendents", id, depth,
                        [i \in DOMAIN targetters |->
                            [id |-> targetters[i].id, depth |-> depth - 1]])
        /\ UNCHANGED <<store, nextId, inflight>>

\* one call of fill_descendents
FillStep ==
    LET call == Head(resp.pending)
        pending == fill_descendents_calls(store, call.id, call.depth, "any")
                       \o Tail(resp.pending)
    IN  /\ resp.op = "fill_descendents"
        /\ resp.pending # <<>>
        /\ Len(pending) <= PendingCap
        /\ resp' = [resp EXCEPT !.pending = pending]
        /\ UNCHANGED <<store, nextId, inflight>>

\* the last call returned: the handler answers
WalkReturn ==
    /\ resp.op = "fill_descendents"
    /\ resp.pending = <<>>
    /\ resp' = Idle
    /\ UNCHANGED <<store, nextId, inflight>>

NextWalk ==
    \/ \E nodes \in TreePostRequests(store) : EntitiesPost(TRUE, nodes)
    \/ Deliver
    \/ \E id \in Ids, depth \in 0..MaxDepth : WalkEntity(id, depth)
    \/ \E id \in Ids, depth \in 0..MaxDepth : WalkTargetters(id, depth)
    \/ FillStep
    \/ WalkReturn

\* a handler that runs keeps running: the calls of a walk are made
SpecWalk == Init /\ [][NextWalk]_vars /\ WF_vars(FillStep)

----------------------------------------------------------------------------
(* Properties *)

IsAnnotationsGet == resp.op = "annotations_get" /\ resp.code = 200

\* what the same request, repeated without force on the state it left,
\* returns; the detector is taken to return what it returned before
Repeated ==
    IF resp.api = "rest"
    THEN update_image_annotations(store, nextId, resp.id, resp.regions, FALSE, NoOutage)
    ELSE update_image_annotations_v1(store, nextId, resp.id, resp.regions, NoOutage)

\* C1: a call without force, repeated with no other change of the store,
\* returns the same ids in the same order and does not invoke the detection
\* routine, whatever the detector returned the first time (the empty list of
\* regions included).
C1_RepeatIsIdempotent ==
    (IsAnnotationsGet /\ ~resp.force)
        => (Repeated.ret = resp.ret /\ Repeated.detect_calls = 0)

\* the page had ImageAnnotations, none of them system inferred, and the
\* request carried the force flag
ForcedOverHuman ==
    /\ IsAnnotationsGet
    /\ resp.api = "rest"
    /\ resp.force
    /\ Len(resp.known) > 0
    /\ Len(resp.known_si) = 0

\* C2 (as stated): with the force flag on a page whose annotations are all
\* not system inferred the call short-circuits: it returns the existing
\* annotations, does not detect and persists nothing.
C2_ForceShortCircuits ==
    ForcedOverHuman
        => (resp.ret = resp.known /\ resp.detect_calls = 0 /\ resp.unchanged)

\* C2 (amended): with the force flag on a page whose annotations are all not
\* system inferred the call does not short-circuit: it invokes the detection
\* routine once, persists one new system-inferred annotation per detected
\* region and returns exactly those; the existing annotations stay in the
\* store.
C2_ForceRedetects ==
    ForcedOverHuman
        => /\ resp.detect_calls = 1
           /\ Len(resp.ret) = Len(resp.regions)
           /\ resp.added = Range(resp.ret)
           /\ \A i \in DOMAIN resp.ret :
                 /\ resp.ret[i] \notin Range(resp.known)
                 /\ Has(store, resp.ret[i])
                 /\ from_id(store, resp.ret[i]).source.source_type = "system_inferred"
           /\ \A i \in DOMAIN resp.known : Has(store, resp.known[i])

C2_Witness == ForcedOverHuman /\ Len(resp.regions) > 0

\* C3: when a system-inferred ImageAnnotation targets the page, the call
\* returns all ImageAnnotations of the page, does not invoke detection and
\* does not write to the store, with and without the force flag.
C3_InferredShortCircuits ==
    (IsAnnotationsGet /\ Len(resp.known_si) > 0)
        => (resp.ret = resp.known /\ resp.detect_calls = 0 /\ resp.unchanged)

C3_Witness ==
    /\ IsAnnotationsGet
    /\ resp.force
    /\ Len(resp.known_si) > 0
    /\ Len(resp.known) > Len(resp.known_si)

\* the rectangle the specification gives for a region
ExpectedRectangle(reg) ==
    [x |-> reg[1], y |-> reg[2], w |-> reg[3] - reg[1], h |-> reg[4] - reg[2]]

\* C4: on a page no ImageAnnotation targets, for n detected regions the call
\* persists exactly n new annotations and returns them in detection order;
\* each has exactly one target, whose container is the page, and the source
\* {system_inferred, pyCV2}.
C4_UninferredPersistsInOrder ==
    (IsAnnotationsGet /\ Len(resp.known) = 0)
        => /\ resp.detect_calls = 1
           /\ Len(resp.ret) = Len(resp.regions)
           /\ Cardinality(resp.added) = Len(resp.regions)
           /\ resp.added = Range(resp.ret)
           /\ \A i \in DOMAIN resp.ret :
                 LET a == from_id(store, resp.ret[i])
                 IN  /\ Has(store, resp.ret[i])
                     /\ a.jsonClass = "ImageAnnotation"
                     /\ Len(a.targets) = 1
                     /\ a.targets[1].container_id = resp.id
                     /\ a.targets[1].rectangle = <<ExpectedRectangle(resp.regions[i])>>
                     /\ a.source = [source_type |-> "system_inferred", id |-> "pyCV2"]

C4_Witness ==
    /\ IsAnnotationsGet
    /\ Len(resp.known) = 0
    /\ Len(resp.regions) = 2
    /\ resp.regions[1] # resp.regions[2]

\* C5: the rectangle stored for a detected region [x0, y0, x1, y1], with or
\* without a score, is {x: x0, y: y0, w: x1 - x0, h: y1 - y0}, and has no
\* other field.
C5_RectangleOfRegion ==
    (IsAnnotationsGet /\ resp.detect_calls = 1)
        => \A i \in DOMAIN resp.ret :
              LET reg == resp.regions[i]
                  rects == from_id(store, resp.ret[i]).targets[1].rectangle
              IN  /\ Len(rects) = 1
                  /\ DOMAIN rects[1] = {"x", "y", "w", "h"}
                  /\ rects[1].x = reg[1]
                  /\ rects[1].y = reg[2]
                  /\ rects[1].w = reg[3] - reg[1]
                  /\ rects[1].h = reg[4] - reg[2]

\* a region with a score and a far corner that differs from its size
C5_Witness ==
    /\ IsAnnotationsGet
    /\ resp.detect_calls = 1
    /\ Len(resp.regions) = 1
    /\ Len(resp.regions[1]) = 5
    /\ resp.regions[1][1] > 0
    /\ resp.regions[1][3] > resp.regions[1][1]
    /\ resp.regions[1][4] < resp.regions[1][2]

\* the posted entity e is not in the store: no persisted entity has its
\* class, targets and source (under its id, if it carries one)
NotPersisted(s, e) ==
    \A i \in DOMAIN s :
        ~ /\ s[i].jsonClass = e.jsonClass
          /\ s[i].targets = e.targets
          /\ s[i].source = e.source
          /\ (e.id # NoId => s[i].id = e.id)

\* C6: a POST /entities that upserts an entity one of whose targets names a
\* container that is not in the store is answered 418 (TargetValidationError)
\* and that entity is not in the store afterwards.
C6_DanglingTargetRejected ==
    (resp.op = "entities_post" /\ resp.dangling)
        => /\ resp.code = 418
           /\ Len(resp.failed) = 1
           /\ Dangling(store, resp.failed[1])
           /\ NotPersisted(store, resp.failed[1])
           /\ Len(resp.written) = resp.done - 1

\* the second entity of a list is the one with the unknown container
C6_Witness ==
    /\ resp.op = "entities_post"
    /\ resp.dangling
    /\ Len(resp.written) = 1

\* C7: when POST /books is answered 419 (a step of the page loop failed
\* after the book was persisted), neither the book nor any page this request
\* created is in the store.
C7_UploadRollback ==
    (resp.op = "books_post" /\ resp.code = 419)
        => /\ resp.book # NoId
           /\ ~Has(store, resp.book)
           /\ \A i \in DOMAIN resp.pages : ~Has(store, resp.pages[i])

C7_Witness ==
    /\ resp.op = "books_post"
    /\ resp.code = 419
    /\ Len(resp.pages) = 2

\* C8: a POST /books answered 417, 405 or 418 leaves the store unchanged,
\* and one disallowed file among the uploaded ones is answered 418.
C8_PrevalidationWritesNothing ==
    /\ (resp.op = "books_post" /\ resp.code \in {417, 405, 418}) => resp.unchanged
    /\ (resp.op = "books_post" /\ \E i \in DOMAIN resp.allowed : ~resp.allowed[i])
           => (resp.code = 418 /\ resp.unchanged)

\* an allowed file followed by a disallowed one
C8_Witness ==
    /\ resp.op = "books_post"
    /\ resp.code = 418
    /\ Len(resp.allowed) = 2
    /\ resp.allowed[1]
    /\ ~resp.allowed[2]

\* C9: an authorized DELETE /entities that names only ids that are not in
\* the store is answered 200 and leaves the store unchanged; repeating a
\* successful delete changes nothing more.
C9_DeleteIsIdempotent ==
    /\ (resp.op = "entities_delete" /\ resp.code # 401
          /\ Range(resp.ids) \subseteq resp.absent)
           => (resp.code = 200 /\ resp.unchanged)
    /\ (resp.op = "entities_delete" /\ resp.code = 200)
           => EntityListHandler_delete(store, TRUE, resp.ids)
                  = [code |-> 200, store |-> store]

C9_Witness ==
    /\ resp.op = "entities_delete"
    /\ resp.code = 200
    /\ resp.ids # <<>>
    /\ Range(resp.ids) \subseteq resp.absent
    /\ store # <<>>

Max(S) == CHOOSE x \in S : \A y \in S : y <= x

RECURSIVE Height(_)
\* levels of a tree below its root
Height(node) ==
    IF Len(node.children) = 0 THEN 0
    ELSE 1 + Max({Height(node.children[i]) : i \in DOMAIN node.children})

\* C10: the tree GET /entities/<id>?depth=d returns has no node more than d
\* levels below its root; with d = 0 the root has no children.
C10_DepthBound ==
    (resp.op = "entity_get" /\ resp.code = 200)
        => /\ resp.body[1].content = resp.id
           /\ Height(resp.body[1]) <= resp.depth
           /\ (resp.depth = 0 => Len(resp.body[1].children) = 0)

\* depth 0 asked of an entity that has targetters
C10_Witness ==
    /\ resp.op = "entity_get"
    /\ resp.code = 200
    /\ resp.depth = 0
    /\ Len(get_targetting_entities(store, resp.id, "any")) > 0

IsEntityGet == resp.op = "entity_get" /\ resp.code = 200

\* the entities that target the entity of the request, in store order
Targetters == IdsOf(get_targetting_entities(store, resp.id, "any"))

\* C11 (as stated): the tree of an entity whose own targets are empty is a
\* single node with no children, at every depth and in every store (also
\* when other entities target it).
C11_NoTargetsIsLeaf ==
    (IsEntityGet /\ Len(from_id(store, resp.id).targets) = 0)
        => resp.body[1] = [content |-> resp.id, children |-> <<>>]

\* C11 (amended): the tree of an entity that no persisted entity targets is
\* a single node with no children, at every depth, whatever the entity's own
\* targets are; an entity whose own targets are empty and that has
\* targetters gets one child per targetter at every depth >= 1.
C11_NoTargettersIsLeaf ==
    /\ (IsEntityGet /\ Len(Targetters) = 0)
          => resp.body[1] = [content |-> resp.id, children |-> <<>>]
    /\ (IsEntityGet /\ Len(from_id(store, resp.id).targets) = 0
          /\ resp.depth >= 1)
          => Len(resp.body[1].children) = Len(Targetters)

\* a page of a book (it has a target and no targetters) asked at depth >= 1
C11_Witness ==
    /\ IsEntityGet
    /\ resp.depth >= 1
    /\ Len(Targetters) = 0
    /\ Len(from_id(store, resp.id).targets) > 0

\* C12: with depth = 1 the tree of an entity that n entities target has
\* exactly n children, one per targetter, and every child has no children,
\* also when that child has targetters of its own.
C12_DepthOneChildrenAreLeaves ==
    (IsEntityGet /\ resp.depth = 1)
        => /\ Len(resp.body[1].children) = Len(Targetters)
           /\ \A i \in DOMAIN resp.body[1].children :
                 resp.body[1].children[i]
                     = [content |-> Targetters[i], children |-> <<>>]

\* a root with two targetters, one of which is itself targetted
C12_Witness ==
    /\ IsEntityGet
    /\ resp.depth = 1
    /\ Len(Targetters) = 2
    /\ \E i \in DOMAIN Targetters :
          Len(get_targetting_entities(store, Targetters[i], "any")) > 0

\* the requests that read one entity by its id
ReadOps == {"entity_get", "entity_files_get", "entity_file_get", "annotations_get"}

\* C13: GET /entities/<id>, GET /entities/<id>/files,
\* GET /entities/<id>/files/<name> and GET /pages/<id>/annotations answer
\* 404 when the id is not in the store; the detection routine is then not
\* invoked and the store is not modified.
C13_UnknownIdIsNotFound ==
    (resp.op \in ReadOps /\ ~Has(store, resp.id))
        => (resp.code = 404 /\ resp.detect_calls = 0 /\ resp.unchanged)

\* the annotations of an id that was deleted, asked of a store that still
\* holds a book portion without annotations
C13_Witness ==
    /\ resp.op = "annotations_get"
    /\ resp.code = 404
    /\ resp.id < nextId
    /\ ~Has(store, resp.id)
    /\ \E i \in DOMAIN store :
          /\ store[i].jsonClass = "BookPortion"
          /\ Len(get_targetting_entities(store, store[i].id, "ImageAnnotation")) = 0

\* C14: in every state every target of every persisted entity names the id
\* of an entity that is persisted in that state.
C14_TargetsArePersisted ==
    \A i \in DOMAIN store : ~Dangling(store, store[i])

\* a delete of one entity removed it together with an entity that targetted
\* it, and another entity stays
C14_Witness ==
    /\ resp.op = "entities_delete"
    /\ resp.code = 200
    /\ Len(resp.ids) = 1
    /\ Cardinality(resp.removed) = 2
    /\ Len(store) > 0

\* the entities of s whose source is system inferred
SystemInferred(s) ==
    {s[i].id : i \in {j \in DOMAIN s : s[j].source.source_type = "system_inferred"}}

\* C15: every persisted annotation whose source is system inferred was
\* created by the detection of GET /pages/<id>/annotations: no other
\* request adds an entity with that source to the store.
C15_InferredOnlyByDetection ==
    [][(SystemInferred(store') \ SystemInferred(store)) # {}
          => resp'.op = "annotations_get"]_vars

WriteOps == {"books_post", "entities_post", "entities_delete"}

\* C16: POST /books, POST /entities and DELETE /entities of a caller for
\* whom check_permission is false are answered 401 and leave the store
\* unchanged.
C16_UnauthorizedWritesNothing ==
    (resp.op \in WriteOps /\ ~resp.authorized)
        => (resp.code = 401 /\ resp.unchanged)

\* an unauthorized delete of an entity the store holds
C16_Witness ==
    /\ resp.op = "entities_delete"
    /\ ~resp.authorized
    /\ \E i \in DOMAIN resp.ids : Has(store, resp.ids[i])

\* C17: a POST /books answered 200 with n files persisted exactly one book
\* and n pages; the page of the i-th file (i = 0..n-1) is titled pg_i and
\* has the single target {container_id: the book, position: i}; the
\* response is the tree of the book with exactly those pages as children.
C17_UploadPersistsBookAndPages ==
    (resp.op = "books_post" /\ resp.code = 200)
        => /\ Len(resp.pages) = Len(resp.allowed)
           /\ resp.book \notin Range(resp.pages)
           /\ Cardinality(Range(resp.pages)) = Len(resp.pages)
           /\ resp.added = {resp.book} \cup Range(resp.pages)
           /\ from_id(store, resp.book).jsonClass = "BookPortion"
           /\ \A k \in DOMAIN resp.pages :
                 LET page == from_id(store, resp.pages[k])
                 IN  /\ page.jsonClass = "BookPortion"
                     /\ page.title = <<"pg_", k - 1>>
                     /\ Len(page.targets) = 1
                     /\ page.targets[1].container_id = resp.book
                     /\ page.targets[1].position = k - 1
           /\ resp.body
                 = <<[content |-> resp.book,
                      children |-> [k \in DOMAIN resp.pages |->
                                      [content |-> resp.pages[k],
                                       children |-> <<>>]]]>>

\* an upload of two files
C17_Witness ==
    /\ resp.op = "books_post"
    /\ resp.code = 200
    /\ Len(resp.pages) = 2

\* the requests that invoked the detection routine
Detecting == {p \in Requests : inflight[p].detected}

Levels(nodes) ==
    IF Len(nodes) = 0 THEN 0
    ELSE 1 + Max({Height(nodes[i]) : i \in DOMAIN nodes})

\* C20: for every depth parameter d >= 0 of GET /entities/<id> and of
\* GET /entities/<id>/targetters every depth handed to fill_descendents is
\* >= 0, and the targetters response for depth d has at most d levels of
\* targetters.
C20_HandedDepthIsNonNegative ==
    /\ (resp.op \in {"entity_get", "targetters_get"} /\ resp.depth >= 0)
          => \A i \in DOMAIN resp.handed : resp.handed[i] >= 0
    /\ (resp.op = "targetters_get" /\ resp.depth >= 0)
          => Levels(resp.body) <= resp.depth

\* C19: every walk of the tree assembler ends, for every store and every
\* depth >= 0, also when the target relation has a cycle or an entity with
\* several containers: every call that is started is followed by the
\* return of the last pending call.
C19_TreeWalkTerminates ==
    (resp.op = "fill_descendents" /\ resp.pending # <<>>)
        ~> (resp.op = "fill_descendents" /\ resp.pending = <<>>)

\* a walk of the largest depth that started at an entity on a cycle of two
\* entities has ended
C19_Witness ==
    /\ resp.op = "fill_descendents"
    /\ resp.pending = <<>>
    /\ resp.depth = MaxDepth
    /\ \E i \in DOMAIN store, j \in DOMAIN store :
          /\ i # j
          /\ store[i].id = resp.id
          /\ Targets(store[i], store[j].id)
          /\ Targets(store[j], store[i].id)

\* C21: when the store becomes unavailable at the k-th write of one
\* detection (k - 1 writes were taken), the request fails and the k - 1
\* annotations persisted before it, those of the first k - 1 regions, are
\* in the store: nothing is rolled back.
C21_PartialAnnotationsRemain ==
    (/\ resp.op = "annotations_get"
     /\ resp.detect_calls = 1
     /\ resp.available < Len(resp.regions))
        => /\ resp.code = 500
           /\ Cardinality(resp.added) = resp.available
           /\ resp.added \subseteq StoreIds(store)
           /\ Len(store) >= resp.available
           /\ \A i \in 1..resp.available :
                 LET a == store[Len(store) - resp.available + i]
                 IN  /\ a.id \in resp.added
                     /\ a.jsonClass = "ImageAnnotation"
                     /\ a.targets =
                            <<ImageTarget(resp.id, ExpectedRectangle(resp.regions[i]))>>
                     /\ a.source = SystemSource

\* the store took the first of two writes of a detection and failed the
\* second
C21_Witness ==
    /\ resp.op = "annotations_get"
    /\ resp.code = 500
    /\ Len(resp.regions) = 2
    /\ resp.available = 1
    /\ Cardinality(resp.added) = 1

\* C22: an annotations request, with any force flag, any prior annotations
\* and any store outage, only adds entities: every entity of the store is
\* still there afterwards, at its place and with its content, and every
\* entity added is a new ImageAnnotation with one target, the page of the
\* request.
C22_DetectionOnlyAdds ==
    [][(resp = Idle /\ resp'.op = "annotations_get")
          => /\ Len(store') >= Len(store)
             /\ SubSeq(store', 1, Len(store)) = store
             /\ \A i \in (Len(store) + 1)..Len(store') :
                   /\ store'[i].jsonClass = "ImageAnnotation"
                   /\ store'[i].id \notin StoreIds(store)
                   /\ Len(store'[i].targets) = 1
                   /\ store'[i].targets[1].container_id = resp'.id]_vars

\* a forced detection added an annotation to a page that has one of a
\* user, which is still stored
C22_Witness ==
    /\ resp.op = "annotations_get"
    /\ resp.code = 200
    /\ resp.force
    /\ resp.detect_calls = 1
    /\ Cardinality(resp.added) >= 1
    /\ Len(resp.known) >= 1
    /\ \A i \in DOMAIN resp.known :
          /\ Has(store, resp.known[i])
          /\ from_id(store, resp.known[i]).source = UserSource

\* C23: when the k-th tree of a POST /entities list fails validation (417
\* for a malformed tree, 418 for a target that cannot be validated), the
\* request ends there: the store is the store of before followed by the
\* trees 1..k-1 of the list under their new ids, and none of the trees
\* behind k is in it (nor the k-th, the trees here being single entities).
C23_PostIsNotAtomic ==
    [][(resp = Idle /\ resp'.op = "entities_post" /\ resp'.code \in {417, 418})
          => LET k == resp'.done
                 e == resp'.failed[1]
             IN  /\ k \in 1..resp'.n
                 /\ resp'.behind = resp'.n - k
                 /\ Len(resp'.ahead) = k - 1
                 /\ Len(resp'.written) = k - 1
                 /\ Len(resp'.failed) = 1
                 /\ store' = store \o
                        [i \in 1..(k - 1) |->
                            [resp'.ahead[i] EXCEPT !.id = resp'.written[i]]]
                 /\ nextId' = nextId + (k - 1)
                 /\ (resp'.code = 417) = (e.jsonClass = "Malformed")
                 /\ (resp'.code = 418) => ~validate_targets(store', e)]_vars

\* the second of three trees failed: the first is stored, the third is not
C23_Witness ==
    /\ resp.op = "entities_post"
    /\ resp.code \in {417, 418}
    /\ resp.done = 2
    /\ resp.n = 3
    /\ Len(resp.written) = 1
    /\ Has(store, resp.written[1])
    /\ Len(store) = 1

====
